---- MODULE Spec2Model ----
(***************************************************************************)
(* Model of the schema migration in server/src/auth/jwt.rs:                *)
(*                                                                         *)
(*   CREATE TABLE users (...);                                             *)
(*   ALTER TABLE profiles DROP CONSTRAINT profiles_id_fkey;                *)
(*   ALTER TABLE profiles ADD CONSTRAINT profiles_id_fkey                  *)
(*       FOREIGN KEY (id) REFERENCES users(id);                            *)
(*                                                                         *)
(* The three statements run in order, one at a time; between any two of    *)
(* them, and after the last, other sessions insert and delete rows of      *)
(* auth.users, users and profiles.  A statement that violates a constraint *)
(* raises an error and changes nothing, so a refused INSERT or DELETE is   *)
(* a step that is not taken.  A script run inside one transaction is the   *)
(* special case in which no other session's step falls between the         *)
(* statements.                                                             *)
(*                                                                         *)
(* server/src/db/connection.rs holds a comment and imports only; it has no *)
(* state and no operation, so nothing of it appears here.                  *)
(***************************************************************************)
EXTENDS Integers, Sequences, FiniteSets

VARIABLES
    auth_users,   \* ids of the rows of auth.users, the old target of the key
    users,        \* rows of the new users table (empty until it is created)
    profiles,     \* ids of the rows of profiles (id is its primary key)
    fkey,         \* the table profiles_id_fkey references, or "none"
    pc            \* the next statement of the migration

vars == <<auth_users, users, profiles, fkey, pc>>

\* Number of distinct UUID values the model draws ids from.
NumIds == 3

Ids == 1..NumIds

NULL == <<"NULL">>

\* VARCHAR(255) and VARCHAR(50).
EmailMaxLen == 255
UsernameMaxLen == 50

\* Character classes of the two CHECK patterns, over the characters the
\* candidate values below are written in.
Alpha == {"a", "b", "c", "o", "u", "v"}
Digit == {"0", "1"}
EmailLocalChars == Alpha \cup Digit \cup {".", "_", "%", "+", "-"}
EmailDomainChars == Alpha \cup Digit \cup {".", "-"}
UsernameChars == Alpha \cup Digit \cup {"_"}

AllIn(s, from, to, class) == \A k \in from..to : s[k] \in class

\* email ~ '^[a-zA-Z0-9._%+-]+@[a-zA-Z0-9.-]+\.[a-zA-Z]{2,}$'
\* i is the position of the "@", j the position of the last-label dot.
email_format(e) ==
    \E i \in 2..Len(e), j \in 4..Len(e) :
        /\ i + 1 < j
        /\ AllIn(e, 1, i - 1, EmailLocalChars)
        /\ e[i] = "@"
        /\ AllIn(e, i + 1, j - 1, EmailDomainChars)
        /\ e[j] = "."
        /\ Len(e) - j >= 2
        /\ AllIn(e, j + 1, Len(e), Alpha)

\* username ~ '^[a-zA-Z0-9_]{1,50}$'
username_format(u) ==
    /\ Len(u) >= 1
    /\ Len(u) <= 50
    /\ AllIn(u, 1, Len(u), UsernameChars)

\* Values an INSERT INTO users may offer for email, username, password_hash.
Emails ==
    { <<"a", "@", "b", ".", "c", "o">>,
      <<"b", "0", "@", "b", "-", "a", ".", "c", "o">>,
      <<"a", "@", "b", ".", "c">>,
      <<"a", "b", ".", "c", "o">>,
      <<"@", "b", ".", "c", "o">>,
      NULL }

Usernames ==
    { <<"u">>, <<"v", "_", "1">>, <<"u", "-">>, <<>>, NULL }

PasswordHashes == { <<"h">>, NULL }

UserIds == { r.id : r \in users }

\* Whether the users table exists: CREATE TABLE users is the first statement.
UsersExists == pc # "create"

Init ==
    /\ auth_users \in SUBSET Ids
    /\ profiles \in SUBSET auth_users
    /\ users = {}
    /\ fkey = "auth.users"
    /\ pc = "create"

\* ---------------------------------------------------------------- migration

\* CREATE TABLE users (...): the table comes into being with no rows.
CreateUsers ==
    /\ pc = "create"
    /\ users' = {}
    /\ pc' = "drop"
    /\ UNCHANGED <<auth_users, profiles, fkey>>

\* ALTER TABLE profiles DROP CONSTRAINT profiles_id_fkey
DropFkey ==
    /\ pc = "drop"
    /\ fkey # "none"
    /\ fkey' = "none"
    /\ pc' = "add"
    /\ UNCHANGED <<auth_users, users, profiles>>

\* The validation ADD CONSTRAINT ... FOREIGN KEY runs over the existing rows:
\* every referencing value must be among the referenced keys.
FkeyValidNotValid(referencing, referenced) == TRUE

FkeyValid(referencing, referenced) == referencing \subseteq referenced

\* ALTER TABLE profiles ADD CONSTRAINT profiles_id_fkey
\*     FOREIGN KEY (id) REFERENCES users(id)
\* The constraint is added when the existing rows satisfy it; otherwise the
\* statement raises a foreign-key violation and adds nothing.
AddFkey ==
    /\ pc = "add"
    /\ fkey = "none"
    /\ \/ /\ FkeyValid(profiles, UserIds)
          /\ fkey' = "users"
          /\ pc' = "done"
       \/ /\ ~FkeyValid(profiles, UserIds)
          /\ fkey' = fkey
          /\ pc' = "failed"
    /\ UNCHANGED <<auth_users, users, profiles>>

\* ------------------------------------------------------- other sessions' DML

\* The keys profiles.id must be among while profiles_id_fkey is in force.
Referenced ==
    IF fkey = "auth.users" THEN auth_users
    ELSE IF fkey = "users" THEN UserIds
    ELSE Ids

\* Whether a row of table t with key id is referenced by a row of profiles
\* (NO ACTION, the default: such a row cannot be deleted).
IsReferenced(t, id) == fkey = t /\ id \in profiles

\* INSERT INTO users: primary key, NOT NULL, UNIQUE, VARCHAR lengths, CHECKs.
InsertUser(id, email, username, password_hash) ==
    /\ UsersExists
    /\ id \notin UserIds
    /\ email # NULL /\ username # NULL /\ password_hash # NULL
    /\ Len(email) <= EmailMaxLen
    /\ Len(username) <= UsernameMaxLen
    /\ \A r \in users : r.email # email /\ r.username # username
    /\ email_format(email)
    /\ username_format(username)
    /\ users' = users \cup {[id |-> id, email |-> email, username |-> username]}
    /\ UNCHANGED <<auth_users, profiles, fkey, pc>>

\* DELETE FROM users WHERE id = ...
DeleteUser(id) ==
    /\ UsersExists
    /\ id \in UserIds
    /\ ~IsReferenced("users", id)
    /\ users' = { r \in users : r.id # id }
    /\ UNCHANGED <<auth_users, profiles, fkey, pc>>

\* INSERT INTO profiles (id, ...): primary key and profiles_id_fkey.
InsertProfile(id) ==
    /\ id \notin profiles
    /\ id \in Referenced
    /\ profiles' = profiles \cup {id}
    /\ UNCHANGED <<auth_users, users, fkey, pc>>

\* DELETE FROM profiles WHERE id = ...
DeleteProfile(id) ==
    /\ id \in profiles
    /\ profiles' = profiles \ {id}
    /\ UNCHANGED <<auth_users, users, fkey, pc>>

\* INSERT INTO auth.users
InsertAuthUser(id) ==
    /\ id \notin auth_users
    /\ auth_users' = auth_users \cup {id}
    /\ UNCHANGED <<users, profiles, fkey, pc>>

\* DELETE FROM auth.users WHERE id = ...
DeleteAuthUser(id) ==
    /\ id \in auth_users
    /\ ~IsReferenced("auth.users", id)
    /\ auth_users' = auth_users \ {id}
    /\ UNCHANGED <<users, profiles, fkey, pc>>

Next ==
    \/ CreateUsers
    \/ DropFkey
    \/ AddFkey
    \/ \E id \in Ids, e \in Emails, u \in Usernames, h \in PasswordHashes :
           InsertUser(id, e, u, h)
    \/ \E id \in Ids : DeleteUser(id)
    \/ \E id \in Ids : InsertProfile(id)
    \/ \E id \in Ids : DeleteProfile(id)
    \/ \E id \in Ids : InsertAuthUser(id)
    \/ \E id \in Ids : DeleteAuthUser(id)

Spec == Init /\ [][Next]_vars

\* ------------------------------------------------------------------ claims

\* C10: once profiles_id_fkey has been re-added against users(id), every row
\* of profiles has the id of some row of users, in the state the constraint
\* is established in and after any later inserts and deletes on users and
\* profiles; so the constraint is only ever established over rows of profiles
\* that all have a matching row of users.
ProfilesReferenceUsers ==
    fkey = "users" => \A p \in profiles : \E r \in users : r.id = p

\* The migration has completed over a non-empty profiles table, and a row of
\* users that no profile references exists beside the referenced one.
MigratedWithProfiles ==
    /\ pc = "done"
    /\ fkey = "users"
    /\ profiles # {}
    /\ UserIds \ profiles # {}

====
